---------------------------- MODULE Spec2Model ----------------------------
(***************************************************************************)
(* Model of the socket dashboard in src/src/main.rs: the application state *)
(* (App.processes: Result<StatefulList<SocketInfo>, NetstatError>), its    *)
(* refresh (App::update) and the event loop of run_app that races the      *)
(* refresh ticker against a blocking input poll spawned on a worker.       *)
(*                                                                         *)
(* StatefulList lives in the module ui::stateful_list, whose source is not *)
(* part of src/; with_items, next and previous are modelled from section   *)
(* 4.1 of the specification.                                               *)
(***************************************************************************)
EXTENDS Integers, Sequences, FiniteSets, TLC

VARIABLES
    processes,   \* App.processes: Ok(StatefulList) or Err(NetstatError)
    pc,          \* position of run_app: "draw", "race", "returnedOk", "returnedErr", "panicked"
    ticker,      \* TRUE when ticker.tick() would complete at once
    event,       \* the JoinHandle of this iteration's poll worker: "idle", "polling" or its result
    detached,    \* poll workers whose JoinHandle was dropped while they were still polling
    stdin,       \* number of terminal events waiting in the input source
    keyLost,     \* history: a key event was read from the input source and never dispatched
    lastOp,      \* history: the last operation applied to the App ("new", "update", "Down", "Up")
    prev,        \* history: App.processes before that operation
    fetched,     \* history: the result of get_sockets_info in that operation
    nexts,       \* history: consecutive next() calls applied since the list was unselected
    sameAgain,   \* history: the last two operations were updates that fetched the same sequence
    system,      \* App.system: the update() calls its snapshot is behind (refresh_all() catches up one)
    inflight,    \* the update() calls that have begun and not returned
    rendered,    \* history: the App.processes the last terminal.draw painted
    cause,       \* history: why run_app returned: "none", "quit" or "draw"
    mainpc,      \* position of main
    entered,     \* history: enable_raw_mode() succeeded
    restored     \* history: the restoration steps main attempted

\* the App and the history of its operations
app == <<processes, lastOp, prev, fetched, nexts, sameAgain, system, inflight>>
\* the race: the ticker, the poll workers and the input source
race == <<ticker, event, detached, stdin, keyLost>>
\* main around run_app
outer == <<mainpc, entered, restored>>

vars == <<app, race, pc, rendered, cause, outer>>

---------------------------------------------------------------------------
(* Bounds of the model *)

\* longest sequence get_sockets_info returns
MaxLen == 3
\* most terminal events waiting in the input source
MaxPending == 1
\* most detached poll workers alive at once (a poll lasts 250 ms, a tick period 2 s)
MaxDetached == 1

\* the connection records a fetch may return
Records == {"A", "B"}
\* the errors a fetch may return
Errors == {"E1", "E2"}
\* key codes: quit, cursor down, cursor up, any other key
Keys == {"q", "Down", "Up", "x"}
\* terminal events: the key events and one event that is no key event
Events == Keys \cup {"Resize"}

---------------------------------------------------------------------------
(* Option<usize> and Result *)

None == <<>>
Some(k) == <<k>>

Ok(list) == [tag |-> "Ok", list |-> list]
Err(e) == [tag |-> "Err", err |-> e]
IsOk(p) == p.tag = "Ok"

FetchOk(items) == [tag |-> "Ok", items |-> items]
FetchErr(e) == [tag |-> "Err", err |-> e]
NoFetch == [tag |-> "NoFetch"]

\* the record other than r
Other(r) == CHOOSE x \in Records : x # r

\* the sequences a fetch may return: of every length up to n, those that
\* alternate the two records, starting with either
SeqsUpTo(n) ==
    {[i \in 1..m |-> IF i % 2 = 1 THEN r ELSE Other(r)] : m \in 0..n, r \in Records}

\* every outcome of get_sockets_info(af_flags, proto_flags)
get_sockets_info == {FetchOk(s) : s \in SeqsUpTo(MaxLen)} \cup {FetchErr(e) : e \in Errors}

---------------------------------------------------------------------------
(* StatefulList (ui::stateful_list) *)

\* with_items(seq): the cursor starts unselected even if seq is non-empty
with_items(items) == [items |-> items, selected |-> None]

\* next(): None -> index 0; else advance by one, wrapping after the last index;
\* no-op on an empty sequence
next(list) ==
    IF list.items = <<>> THEN list
    ELSE IF list.selected = None THEN [list EXCEPT !.selected = Some(0)]
    ELSE IF list.selected[1] >= Len(list.items) - 1 THEN [list EXCEPT !.selected = Some(0)]
    ELSE [list EXCEPT !.selected = Some(list.selected[1] + 1)]

\* previous(): None -> index 0; else move back by one, wrapping to the last index
\* from index 0; no-op on an empty sequence
previous(list) ==
    IF list.items = <<>> THEN list
    ELSE IF list.selected = None THEN [list EXCEPT !.selected = Some(0)]
    ELSE IF list.selected[1] = 0 THEN [list EXCEPT !.selected = Some(Len(list.items) - 1)]
    ELSE [list EXCEPT !.selected = Some(list.selected[1] - 1)]

---------------------------------------------------------------------------
(* App *)

\* mutant of New: the fresh list highlights its first row
New_selectFirst(r) ==
    IF r.tag = "Ok"
    THEN Ok([items |-> r.items, selected |-> IF r.items = <<>> THEN None ELSE Some(0)])
    ELSE Err(r.err)

\* App::new, given the outcome r of its fetch
New(r) == IF r.tag = "Ok" THEN Ok(with_items(r.items)) ELSE Err(r.err)

\* mutant of update: a failed fetch keeps the list already shown
update_keepStale(p, r) ==
    IF r.tag = "Ok"
    THEN IF IsOk(p)
         THEN LET previously_selected == p.list.selected
                  n == Len(r.items)
              IN  IF previously_selected # None /\ previously_selected[1] >= n
                  THEN IF n = 0
                       THEN Ok([items |-> r.items, selected |-> None])
                       ELSE Ok([items |-> r.items, selected |-> Some(n - 1)])
                  ELSE Ok([items |-> r.items, selected |-> previously_selected])
         ELSE Ok(with_items(r.items))
    ELSE IF IsOk(p) THEN p ELSE Err(r.err)

\* mutant of update: a successful fetch always builds a fresh list
update_freshList(p, r) ==
    IF r.tag = "Ok" THEN Ok(with_items(r.items)) ELSE Err(r.err)

\* mutant of update: the selection is never reconciled with the new length
update_noClamp(p, r) ==
    IF r.tag = "Ok"
    THEN IF IsOk(p)
         THEN Ok([items |-> r.items, selected |-> p.list.selected])
         ELSE Ok(with_items(r.items))
    ELSE Err(r.err)

\* mutant of update: the is_empty() test is missing, an out-of-bounds selection
\* is clamped with a saturating len - 1
update_noEmptyReset(p, r) ==
    IF r.tag = "Ok"
    THEN IF IsOk(p)
         THEN LET previously_selected == p.list.selected
                  n == Len(r.items)
              IN  IF previously_selected # None /\ previously_selected[1] >= n
                  THEN Ok([items |-> r.items, selected |-> Some(IF n = 0 THEN 0 ELSE n - 1)])
                  ELSE Ok([items |-> r.items, selected |-> previously_selected])
         ELSE Ok(with_items(r.items))
    ELSE Err(r.err)

\* mutant of update: after the replacement the highlight is moved on with next()
update_thenNext(p, r) ==
    IF r.tag = "Ok"
    THEN IF IsOk(p)
         THEN LET previously_selected == p.list.selected
                  n == Len(r.items)
                  sel == IF previously_selected # None /\ previously_selected[1] >= n
                         THEN IF n = 0 THEN None ELSE Some(n - 1)
                         ELSE previously_selected
              IN  Ok(next([items |-> r.items, selected |-> sel]))
         ELSE Ok(with_items(r.items))
    ELSE Err(r.err)

\* update() up to "processes.items = new_sockets_info": on an Ok state and a
\* successful fetch the items are replaced and the selection is not yet reconciled
assign_items(p, r) ==
    IF r.tag = "Ok" /\ IsOk(p)
    THEN Ok([items |-> r.items, selected |-> p.list.selected])
    ELSE p

\* App::update, given the prior state p and the outcome r of its fetch
update(p, r) ==
    IF r.tag = "Ok"
    THEN IF IsOk(p)
         THEN LET previously_selected == p.list.selected
                  n == Len(r.items)
              IN  IF previously_selected # None /\ previously_selected[1] >= n
                  THEN IF n = 0
                       THEN Ok([items |-> r.items, selected |-> None])
                       ELSE Ok([items |-> r.items, selected |-> Some(n - 1)])
                  ELSE Ok([items |-> r.items, selected |-> previously_selected])
         ELSE Ok(with_items(r.items))
    ELSE Err(r.err)

\* mutant of OnDown: the Err state is replaced by an empty list
OnDown_createsList(p) == IF IsOk(p) THEN Ok(next(p.list)) ELSE Ok(with_items(<<>>))

\* mutant of OnDown: the arm calls previous()
OnDown_previous(p) == IF IsOk(p) THEN Ok(previous(p.list)) ELSE p

\* mutant of OnDown: the arm selects the first row itself when nothing is selected
OnDown_selectFirst(p) ==
    IF IsOk(p)
    THEN IF p.list.selected = None
         THEN Ok([p.list EXCEPT !.selected = Some(0)])
         ELSE Ok(next(p.list))
    ELSE p

\* KeyCode::Down arm of run_app
OnDown(p) == IF IsOk(p) THEN Ok(next(p.list)) ELSE p

\* mutant of OnUp: the arm calls next()
OnUp_next(p) == IF IsOk(p) THEN Ok(next(p.list)) ELSE p

\* KeyCode::Up arm of run_app
OnUp(p) == IF IsOk(p) THEN Ok(previous(p.list)) ELSE p

\* the details pane of ui() indexes processes.items[selected]
IndexInBounds(p) ==
    IsOk(p) /\ p.list.selected # None => p.list.selected[1] < Len(p.list.items)

\* an Ok list that is non-empty and unselected
Unselected(p) == IsOk(p) /\ p.list.items # <<>> /\ p.list.selected = None

---------------------------------------------------------------------------
(* run_app *)

\* the positions at which run_app has not returned
Running == {"draw", "race", "fetch", "reconcile"}

Init ==
    \E r \in get_sockets_info :
        /\ processes = New(r)
        /\ pc = "draw"
        /\ ticker = TRUE          \* the first tick of interval() completes immediately
        /\ event = "idle"
        /\ detached = 0
        /\ stdin = 0
        /\ keyLost = FALSE
        /\ lastOp = "new"
        /\ prev = Err("E1")
        /\ fetched = r
        /\ nexts = IF Unselected(New(r)) THEN Some(0) ELSE None
        /\ sameAgain = FALSE
        /\ system = 0             \* System::new_all()
        /\ inflight = 0
        /\ rendered = Err("E1")
        /\ cause = "none"
        /\ mainpc = "run_app"
        /\ entered = TRUE
        /\ restored = {}

\* terminal.draw(|f| ui(f, &mut app)) succeeds, then the poll worker is spawned
Draw ==
    /\ pc = "draw"
    /\ IF IndexInBounds(processes)
       THEN pc' = "race" /\ event' = "polling"
       ELSE pc' = "panicked" /\ event' = event
    /\ rendered' = processes
    /\ UNCHANGED <<app, ticker, detached, stdin, keyLost, cause, outer>>

\* terminal.draw(...)? returns the io::Error to the caller
DrawFail ==
    /\ pc = "draw"
    /\ pc' = "returnedErr"
    /\ cause' = "draw"
    /\ UNCHANGED <<app, race, rendered, outer>>

\* the attached worker: event::poll is true and event::read takes the oldest event
PollRead ==
    /\ event = "polling"
    /\ stdin > 0
    /\ \E e \in Events : event' = e
    /\ stdin' = stdin - 1
    /\ UNCHANGED <<app, pc, ticker, detached, keyLost, rendered, cause, outer>>

\* the attached worker: event::poll(250 ms) is false
PollTimeout ==
    /\ event = "polling"
    /\ stdin = 0
    /\ event' = "timeout"
    /\ UNCHANGED <<app, pc, ticker, detached, stdin, keyLost, rendered, cause, outer>>

\* the attached worker: event::poll or event::read fails
PollError ==
    /\ event = "polling"
    /\ event' = "ioerr"
    /\ UNCHANGED <<app, pc, ticker, detached, stdin, keyLost, rendered, cause, outer>>

\* a detached worker reads the oldest event; nobody awaits its result
DetachedRead ==
    /\ detached > 0
    /\ stdin > 0
    /\ detached' = detached - 1
    /\ stdin' = stdin - 1
    /\ \E e \in Events : keyLost' = (keyLost \/ e \in Keys)
    /\ UNCHANGED <<app, pc, ticker, event, rendered, cause, outer>>

\* a detached worker times out or fails
DetachedEnd ==
    /\ detached > 0
    /\ detached' = detached - 1
    /\ UNCHANGED <<app, pc, ticker, event, stdin, keyLost, rendered, cause, outer>>

\* the 2 s period elapses
TickElapses ==
    /\ pc \in Running
    /\ ~ticker
    /\ detached < MaxDetached
    /\ ticker' = TRUE
    /\ UNCHANGED <<app, pc, event, detached, stdin, keyLost, rendered, cause, outer>>

\* the user or the terminal produces an event
Input ==
    /\ pc \in Running
    /\ stdin < MaxPending
    /\ stdin' = stdin + 1
    /\ UNCHANGED <<app, pc, ticker, event, detached, keyLost, rendered, cause, outer>>

\* mutant of SelectTick: while an error is shown the tick is consumed and no
\* update() is called
SelectTick_skipsInErr ==
    /\ pc = "race"
    /\ ticker
    /\ ticker' = FALSE
    /\ detached' = IF event = "polling" THEN detached + 1 ELSE detached
    /\ keyLost' = (keyLost \/ event \in Keys)
    /\ event' = "idle"
    /\ system' = IF IsOk(processes) THEN system + 1 ELSE system
    /\ inflight' = IF IsOk(processes) THEN inflight + 1 ELSE inflight
    /\ lastOp' = IF IsOk(processes) THEN "updating" ELSE lastOp
    /\ sameAgain' = (IsOk(processes) /\ lastOp = "update" /\ fetched.tag = "Ok")
    /\ pc' = IF IsOk(processes) THEN "fetch" ELSE "draw"
    /\ UNCHANGED <<processes, prev, fetched, nexts, stdin, rendered, cause, outer>>

\* mutant of SelectTick: update() is handed to another task and the loop goes on
SelectTick_spawnsUpdate ==
    /\ pc = "race"
    /\ ticker
    /\ ticker' = FALSE
    /\ detached' = IF event = "polling" THEN detached + 1 ELSE detached
    /\ keyLost' = (keyLost \/ event \in Keys)
    /\ event' = "idle"
    /\ system' = system + 1
    /\ inflight' = inflight + 1
    /\ lastOp' = "updating"
    /\ sameAgain' = (lastOp = "update" /\ fetched.tag = "Ok")
    /\ pc' = "draw"
    /\ UNCHANGED <<processes, prev, fetched, nexts, stdin, rendered, cause, outer>>

\* select! takes the ticker branch and calls app.update() on the loop's own task,
\* which blocks in get_sockets_info; the event JoinHandle is dropped
SelectTick ==
    /\ pc = "race"
    /\ ticker
    /\ ticker' = FALSE
    /\ detached' = IF event = "polling" THEN detached + 1 ELSE detached
    /\ keyLost' = (keyLost \/ event \in Keys)
    /\ event' = "idle"
    /\ system' = system + 1
    /\ inflight' = inflight + 1
    /\ lastOp' = "updating"
    /\ sameAgain' = (lastOp = "update" /\ fetched.tag = "Ok")
    /\ pc' = "fetch"
    /\ UNCHANGED <<processes, prev, fetched, nexts, stdin, rendered, cause, outer>>

\* mutant of FetchReturns: update() yields to the loop between assigning the
\* items and reconciling the selection
FetchReturns_yields ==
    /\ pc = "fetch"
    /\ \E r \in get_sockets_info :
          /\ processes' = assign_items(processes, r)
          /\ fetched' = r
          /\ sameAgain' = (sameAgain /\ fetched = r)
    /\ prev' = processes
    /\ nexts' = None
    /\ pc' = "draw"
    /\ UNCHANGED <<lastOp, system, inflight, race, rendered, cause, outer>>

\* get_sockets_info returns r; on Ok/Ok the items are assigned
FetchReturns ==
    /\ pc = "fetch"
    /\ \E r \in get_sockets_info :
          /\ processes' = assign_items(processes, r)
          /\ fetched' = r
          /\ sameAgain' = (sameAgain /\ fetched = r)
    /\ prev' = processes
    /\ nexts' = None
    /\ pc' = "reconcile"
    /\ UNCHANGED <<lastOp, system, inflight, race, rendered, cause, outer>>

\* mutant of UpdateReturns: refresh_all() sits in the Ok arm of the match
UpdateReturns_refreshOnOk ==
    /\ pc = "reconcile"
    /\ processes' = update(prev, fetched)
    /\ lastOp' = "update"
    /\ nexts' = IF Unselected(processes') THEN Some(0) ELSE None
    /\ system' = IF fetched.tag = "Ok" THEN system - 1 ELSE system
    /\ inflight' = inflight - 1
    /\ pc' = "draw"
    /\ UNCHANGED <<prev, fetched, sameAgain, race, rendered, cause, outer>>

\* the rest of update(): the selection is reconciled or the state replaced, then
\* self.system.refresh_all()
UpdateReturns ==
    /\ pc = "reconcile"
    /\ processes' = update(prev, fetched)
    /\ lastOp' = "update"
    /\ nexts' = IF Unselected(processes') THEN Some(0) ELSE None
    /\ system' = system - 1
    /\ inflight' = inflight - 1
    /\ pc' = "draw"
    /\ UNCHANGED <<prev, fetched, sameAgain, race, rendered, cause, outer>>

\* mutant of SelectQuit: the arm leaves the match and the loop goes round again
SelectQuit_continues ==
    /\ pc = "race"
    /\ event = "q"
    /\ event' = "idle"
    /\ pc' = "draw"
    /\ cause' = "quit"
    /\ UNCHANGED <<app, ticker, detached, stdin, keyLost, rendered, outer>>

\* select! takes the event branch with Ok(Ok(Some(Event::Key(key)))), key.code = 'q'
SelectQuit ==
    /\ pc = "race"
    /\ event = "q"
    /\ event' = "idle"
    /\ pc' = "returnedOk"
    /\ cause' = "quit"
    /\ UNCHANGED <<app, ticker, detached, stdin, keyLost, rendered, outer>>

\* ... key.code = Down
SelectDown ==
    /\ pc = "race"
    /\ event = "Down"
    /\ processes' = OnDown(processes)
    /\ prev' = processes
    /\ lastOp' = "Down"
    /\ fetched' = NoFetch
    /\ nexts' = IF nexts # None /\ IsOk(processes) /\ nexts[1] <= Len(processes.list.items)
                THEN Some(nexts[1] + 1) ELSE None
    /\ sameAgain' = FALSE
    /\ event' = "idle"
    /\ pc' = "draw"
    /\ UNCHANGED <<system, inflight, ticker, detached, stdin, keyLost, rendered, cause, outer>>

\* ... key.code = Up
SelectUp ==
    /\ pc = "race"
    /\ event = "Up"
    /\ processes' = OnUp(processes)
    /\ prev' = processes
    /\ lastOp' = "Up"
    /\ fetched' = NoFetch
    /\ nexts' = IF Unselected(processes') THEN Some(0) ELSE None
    /\ sameAgain' = FALSE
    /\ event' = "idle"
    /\ pc' = "draw"
    /\ UNCHANGED <<system, inflight, ticker, detached, stdin, keyLost, rendered, cause, outer>>

\* mutant of SelectIgnored: a failed poll is returned to the caller with ?
SelectIgnored_propagates ==
    /\ pc = "race"
    /\ event \in {"x", "Resize", "timeout", "ioerr"}
    /\ event' = "idle"
    /\ pc' = IF event = "ioerr" THEN "returnedErr" ELSE "draw"
    /\ UNCHANGED <<app, ticker, detached, stdin, keyLost, rendered, cause, outer>>

\* select! takes the event branch with anything else: another key, an event that
\* is no key event, a poll timeout (Ok(Ok(None))) or an error
SelectIgnored ==
    /\ pc = "race"
    /\ event \in {"x", "Resize", "timeout", "ioerr"}
    /\ event' = "idle"
    /\ pc' = "draw"
    /\ UNCHANGED <<app, ticker, detached, stdin, keyLost, rendered, cause, outer>>

Next ==
    \/ Draw
    \/ DrawFail
    \/ PollRead
    \/ PollTimeout
    \/ PollError
    \/ DetachedRead
    \/ DetachedEnd
    \/ TickElapses
    \/ Input
    \/ SelectTick
    \/ FetchReturns
    \/ UpdateReturns
    \/ SelectQuit
    \/ SelectDown
    \/ SelectUp
    \/ SelectIgnored

Spec == Init /\ [][Next]_vars

---------------------------------------------------------------------------
(* main *)

\* the restoration steps of main
Restoration == {"disable_raw_mode", "LeaveAlternateScreen", "show_cursor"}

\* main is entered; no App exists yet
MainInit ==
    /\ mainpc = "enable_raw_mode"
    /\ entered = FALSE
    /\ restored = {}
    /\ pc = "notStarted"
    /\ processes = Err("E1")
    /\ ticker = FALSE
    /\ event = "idle"
    /\ detached = 0
    /\ stdin = 0
    /\ keyLost = FALSE
    /\ lastOp = "none"
    /\ prev = Err("E1")
    /\ fetched = NoFetch
    /\ nexts = None
    /\ sameAgain = FALSE
    /\ system = 0
    /\ inflight = 0
    /\ rendered = Err("E1")
    /\ cause = "none"

\* enable_raw_mode()?
EnableRawMode ==
    /\ mainpc = "enable_raw_mode"
    /\ \E ok \in BOOLEAN :
          /\ entered' = ok
          /\ mainpc' = IF ok THEN "EnterAlternateScreen" ELSE "exitErr"
    /\ UNCHANGED <<app, race, pc, rendered, cause, restored>>

\* execute!(stdout, EnterAlternateScreen, EnableMouseCapture)?
EnterAlternateScreen ==
    /\ mainpc = "EnterAlternateScreen"
    /\ \E ok \in BOOLEAN : mainpc' = IF ok THEN "Terminal_new" ELSE "exitErr"
    /\ UNCHANGED <<app, race, pc, rendered, cause, entered, restored>>

\* Terminal::new(backend)?
TerminalNew ==
    /\ mainpc = "Terminal_new"
    /\ \E ok \in BOOLEAN : mainpc' = IF ok THEN "App_new" ELSE "exitErr"
    /\ UNCHANGED <<app, race, pc, rendered, cause, entered, restored>>

\* App::new(), then run_app is entered
AppNew ==
    /\ mainpc = "App_new"
    /\ \E r \in get_sockets_info :
          /\ processes' = New(r)
          /\ fetched' = r
          /\ nexts' = IF Unselected(New(r)) THEN Some(0) ELSE None
    /\ lastOp' = "new"
    /\ ticker' = TRUE
    /\ pc' = "draw"
    /\ mainpc' = "run_app"
    /\ UNCHANGED <<prev, sameAgain, system, inflight, event, detached, stdin, keyLost,
                   rendered, cause, entered, restored>>

\* run_app(&mut terminal, app).await returns res
RunAppReturns ==
    /\ mainpc = "run_app"
    /\ pc \in {"returnedOk", "returnedErr"}
    /\ mainpc' = "disable_raw_mode"
    /\ UNCHANGED <<app, race, pc, rendered, cause, entered, restored>>

\* disable_raw_mode()?
DisableRawMode ==
    /\ mainpc = "disable_raw_mode"
    /\ restored' = restored \cup {"disable_raw_mode"}
    /\ \E ok \in BOOLEAN : mainpc' = IF ok THEN "LeaveAlternateScreen" ELSE "exitErr"
    /\ UNCHANGED <<app, race, pc, rendered, cause, entered>>

\* execute!(terminal.backend_mut(), LeaveAlternateScreen, DisableMouseCapture)?
LeaveAlternateScreen ==
    /\ mainpc = "LeaveAlternateScreen"
    /\ restored' = restored \cup {"LeaveAlternateScreen"}
    /\ \E ok \in BOOLEAN : mainpc' = IF ok THEN "show_cursor" ELSE "exitErr"
    /\ UNCHANGED <<app, race, pc, rendered, cause, entered>>

\* terminal.show_cursor()?, then res is printed if it is an Err and main returns Ok(())
ShowCursor ==
    /\ mainpc = "show_cursor"
    /\ restored' = restored \cup {"show_cursor"}
    /\ \E ok \in BOOLEAN : mainpc' = IF ok THEN "exitOk" ELSE "exitErr"
    /\ UNCHANGED <<app, race, pc, rendered, cause, entered>>

MainNext ==
    \/ EnableRawMode
    \/ EnterAlternateScreen
    \/ TerminalNew
    \/ AppNew
    \/ Next
    \/ RunAppReturns
    \/ DisableRawMode
    \/ LeaveAlternateScreen
    \/ ShowCursor

\* main from its entry, with run_app inside it
MainSpec == MainInit /\ [][MainNext]_vars

\* the loop keeps running: a draw, a fetch and the rest of update() complete, and
\* select!, which polls its ready branches in random order, does not pass over a
\* ready ticker for ever
LiveSpec ==
    /\ Spec
    /\ WF_vars(Draw)
    /\ WF_vars(FetchReturns)
    /\ WF_vars(UpdateReturns)
    /\ SF_vars(SelectTick)

---------------------------------------------------------------------------
(* Properties *)

\* no update() is part-way through its assignments: the state is the one an
\* operation left behind
Settled == pc # "reconcile"

\* the length of the list now shown (0 when the state is Err)
NowLen == IF IsOk(processes) THEN Len(processes.list.items) ELSE 0

\* C1: when update() performs a fetch that fails, the state afterwards is
\* Err(that error), whatever the prior state was; nothing of the prior list remains.
C1_FailedFetchReplacesState ==
    lastOp = "update" /\ fetched.tag = "Err" => processes = Err(fetched.err)

C1_Witness ==
    /\ lastOp = "update" /\ fetched.tag = "Err"
    /\ IsOk(prev) /\ prev.list.items # <<>> /\ prev.list.selected # None
    /\ processes = Err(fetched.err)

\* C2: when update() succeeds on an Ok state with cursor Some(k) and the new
\* sequence is longer than k, the items are the new sequence and the cursor is
\* still Some(k).
C2_SelectionPreserved ==
    /\ lastOp = "update" /\ fetched.tag = "Ok"
    /\ IsOk(prev) /\ prev.list.selected # None
    /\ Len(fetched.items) > prev.list.selected[1]
    => processes = Ok([items |-> fetched.items, selected |-> prev.list.selected])

C2_Witness ==
    /\ lastOp = "update" /\ fetched.tag = "Ok"
    /\ IsOk(prev) /\ prev.list.selected = Some(1)
    /\ Len(fetched.items) = 2 /\ Len(prev.list.items) = 3
    /\ fetched.items[2] # prev.list.items[2]
    /\ processes = Ok([items |-> fetched.items, selected |-> Some(1)])

\* C3: when update() succeeds on an Ok state with cursor Some(k) and the new
\* sequence has length new_len <= k, the cursor becomes Some(new_len - 1), or
\* None when new_len = 0; replacing with an empty sequence always leaves None.
C3_SelectionClamped ==
    /\ ( /\ lastOp = "update" /\ fetched.tag = "Ok"
         /\ IsOk(prev) /\ prev.list.selected # None
         /\ Len(fetched.items) <= prev.list.selected[1]
         => processes = Ok([items |-> fetched.items,
                            selected |-> IF Len(fetched.items) > 0
                                         THEN Some(Len(fetched.items) - 1)
                                         ELSE None]) )
    /\ ( lastOp = "update" /\ fetched.tag = "Ok" /\ fetched.items = <<>>
         => processes = Ok([items |-> <<>>, selected |-> None]) )

\* [A,B,C] with cursor 2 replaced by a sequence of two gives cursor 1
C3_Witness ==
    /\ lastOp = "update" /\ fetched.tag = "Ok"
    /\ IsOk(prev) /\ Len(prev.list.items) = 3 /\ prev.list.selected = Some(2)
    /\ Len(fetched.items) = 2
    /\ processes = Ok([items |-> fetched.items, selected |-> Some(1)])

\* C4 as stated: in every Ok state the cursor is None if and only if the item
\* sequence is empty.
C4_NoneIffEmpty ==
    Settled /\ IsOk(processes) => (processes.list.selected = None <=> processes.list.items = <<>>)

\* C4 as amended: in every Ok state an empty item sequence has cursor None (a
\* non-empty sequence may be unselected too: a fresh list has no selection).
C4_EmptyImpliesNone ==
    Settled /\ IsOk(processes) /\ processes.list.items = <<>> => processes.list.selected = None

C4_Witness ==
    /\ lastOp = "update" /\ IsOk(prev) /\ prev.list.selected # None
    /\ IsOk(processes) /\ processes.list.items = <<>> /\ processes.list.selected = None

\* C5: a freshly constructed list has cursor None even when it is non-empty:
\* after App::new() with a successful fetch, and after an update() that succeeds
\* while the state was Err.
C5_FreshListUnselected ==
    /\ ( lastOp = "new" /\ fetched.tag = "Ok"
         => processes = Ok([items |-> fetched.items, selected |-> None]) )
    /\ ( lastOp = "update" /\ fetched.tag = "Ok" /\ ~IsOk(prev)
         => processes = Ok([items |-> fetched.items, selected |-> None]) )

C5_Witness ==
    /\ lastOp = "update" /\ fetched.tag = "Ok" /\ ~IsOk(prev)
    /\ Len(fetched.items) = 2
    /\ processes = Ok([items |-> fetched.items, selected |-> None])

\* C6: while the state is Err, a down-key or up-key event leaves the whole
\* application state unchanged.
C6_NavigationNoOpInErr ==
    lastOp \in {"Down", "Up"} /\ ~IsOk(prev) => processes = prev

C6_Witness ==
    lastOp = "Down" /\ ~IsOk(prev) /\ processes = prev

\* C7 as stated: on a list of length n > 0 that is unselected, n consecutive
\* next() calls leave the cursor at index 0.
C7_NextNTimesAtZero ==
    IsOk(processes) /\ NowLen > 0 /\ nexts = Some(NowLen)
    => processes.list.selected = Some(0)

\* C7 as amended: on a list of length n > 0 that is unselected, n consecutive
\* next() calls leave the cursor at index n - 1 (the first call selects index 0),
\* and n + 1 consecutive calls leave it at index 0.
C7_NextWraps ==
    /\ ( IsOk(processes) /\ NowLen > 0 /\ nexts = Some(NowLen)
         => processes.list.selected = Some(NowLen - 1) )
    /\ ( IsOk(processes) /\ NowLen > 0 /\ nexts = Some(NowLen + 1)
         => processes.list.selected = Some(0) )

C7_Witness ==
    /\ IsOk(processes) /\ NowLen = 3 /\ nexts = Some(4)
    /\ processes.list.selected = Some(0)

\* C8: on a list of length n > 0, previous() at index 0 yields n - 1, next() at
\* index n - 1 yields 0, and previous() with no selection yields index 0.
C8_WrapAround ==
    /\ ( lastOp = "Up" /\ IsOk(prev) /\ prev.list.items # <<>> /\ prev.list.selected = Some(0)
         => processes = Ok([prev.list EXCEPT !.selected = Some(Len(prev.list.items) - 1)]) )
    /\ ( /\ lastOp = "Down" /\ IsOk(prev) /\ prev.list.items # <<>>
         /\ prev.list.selected = Some(Len(prev.list.items) - 1)
         => processes = Ok([prev.list EXCEPT !.selected = Some(0)]) )
    /\ ( lastOp = "Up" /\ IsOk(prev) /\ prev.list.items # <<>> /\ prev.list.selected = None
         => processes = Ok([prev.list EXCEPT !.selected = Some(0)]) )

C8_Witness ==
    /\ lastOp = "Up" /\ IsOk(prev) /\ Len(prev.list.items) = 3
    /\ prev.list.selected = Some(0)
    /\ processes = Ok([prev.list EXCEPT !.selected = Some(2)])

\* C9: on an empty list next() and previous() leave the cursor None, so the
\* render never indexes into the empty sequence.
C9_EmptyListStaysUnselected ==
    /\ ( lastOp \in {"Down", "Up"} /\ IsOk(prev) /\ prev.list.items = <<>>
         => processes = Ok([items |-> <<>>, selected |-> None]) )
    /\ ( pc = "panicked" => ~(IsOk(processes) /\ processes.list.items = <<>>) )

C9_Witness ==
    /\ lastOp = "Down" /\ IsOk(prev) /\ prev.list.items = <<>>
    /\ processes = Ok([items |-> <<>>, selected |-> None])
    /\ pc = "race"

\* C10: no key event is lost by the race: every key event taken from the input
\* source is dispatched to its handler.
C10_NoKeyEventLost == ~keyLost

\* an update() call has begun and not returned
InUpdate == pc \in {"fetch", "reconcile"}

\* C11: when a quit key is dispatched, in an Ok or an Err state, the loop ends in
\* that iteration: no render, no update() and no cursor change follows.
C11_QuitEndsLoop ==
    /\ [](cause = "quit" => pc = "returnedOk")
    /\ [][cause = "quit" => /\ pc' = pc
                            /\ app' = app
                            /\ rendered' = rendered]_vars

C11_Witness ==
    cause = "quit" /\ pc = "returnedOk" /\ ~IsOk(processes)

\* C12: if two consecutive update() calls both succeed with the same sequence,
\* the state after the second call equals the state after the first.
C12_UpdateIdempotent ==
    lastOp = "update" /\ sameAgain => processes = prev

C12_Witness ==
    /\ lastOp = "update" /\ sameAgain
    /\ IsOk(processes) /\ processes.list.selected = Some(1)
    /\ processes = prev

\* C13: every update() call refreshes the usage snapshot exactly once, whether
\* the fetch succeeded or failed and whatever the prior state; key events and
\* renders never refresh it.
C13_RefreshOncePerUpdate ==
    /\ ( lastOp = "updating" => system = 1 )
    /\ ( lastOp # "updating" => system = 0 )

C13_Witness ==
    /\ lastOp = "update" /\ fetched.tag = "Err" /\ ~IsOk(prev)
    /\ pc = "race" /\ system = 0

\* C14: as long as the loop has not returned, every tick that is due is followed
\* by an update() call, even if key events arrive in every iteration.
C14_RefreshNotStarved ==
    (ticker /\ lastOp # "updating") ~> (lastOp = "updating" \/ pc \notin Running)

\* update() was called after a key operation, in an iteration in which the
\* ticker won against a key event, with more input waiting
C14_Witness ==
    /\ pc = "fetch" /\ lastOp = "updating" /\ ~ticker
    /\ fetched = NoFetch /\ keyLost /\ stdin > 0

\* C15 as stated: while an update() fetch is in progress the loop can still
\* take and dispatch a key event.
C15_KeysDispatchedDuringFetch ==
    pc = "fetch" /\ stdin > 0
    => ENABLED (PollRead \/ SelectQuit \/ SelectDown \/ SelectUp \/ SelectIgnored)

\* C15 as amended: while an update() fetch is in progress the loop holds no poll
\* result and dispatches nothing (the fetch runs on the task that decides the
\* race); at most one fetch is in flight at a time.
C15_FetchBlocksLoop ==
    /\ inflight \in {0, 1}
    /\ ( inflight = 1 => InUpdate /\ event = "idle" )
    /\ ( InUpdate => ~ENABLED (SelectQuit \/ SelectDown \/ SelectUp \/ SelectIgnored) )

C15_Witness ==
    pc = "fetch" /\ stdin > 0 /\ event = "idle" /\ inflight = 1

\* C16: in every state an operation leaves behind, an Ok state with cursor
\* Some(k) has k < len(items); the render's items[selected] never panics.
C16_CursorInBounds ==
    /\ ( Settled => IndexInBounds(processes) )
    /\ IndexInBounds(rendered)
    /\ pc # "panicked"

C16_Witness ==
    /\ lastOp = "update" /\ IsOk(prev) /\ prev.list.selected = Some(2)
    /\ IsOk(processes) /\ Len(processes.list.items) = 1
    /\ processes.list.selected = Some(0)
    /\ pc = "race" /\ rendered = processes

\* C17: fetches, renders and key handling are serialized on the loop: a render
\* happens only when no update() is in progress and paints the state the last
\* completed operation left; during an update() only that update() changes the App.
C17_Serialized ==
    [][ /\ ( pc = "draw" /\ pc' \in {"race", "panicked"}
             => inflight = 0 /\ lastOp # "updating" /\ rendered' = processes )
        /\ ( rendered' # rendered => pc = "draw" /\ inflight = 0 )
        /\ ( inflight # 0 /\ processes' # processes
             => \/ pc = "fetch" /\ processes' = assign_items(processes, fetched')
                \/ pc = "reconcile" /\ processes' = update(prev, fetched) ) ]_vars

\* a half-replaced list exists inside update() and was not painted
C17_Witness ==
    /\ pc = "reconcile" /\ ~IndexInBounds(processes)
    /\ rendered # processes /\ IndexInBounds(rendered)

\* C18: at most one input-poll worker is outstanding at any moment.
C18_AtMostOnePoll ==
    detached + (IF event = "polling" THEN 1 ELSE 0) <= 1

\* C19 as stated: the loop reaches its terminal state only through a dispatched
\* quit key.
C19_OnlyQuitEndsLoop ==
    pc \notin Running => cause = "quit"

\* C19 as amended: the loop reaches its terminal state only through a dispatched
\* quit key or a render error that terminal.draw returns; no fetch error, poll
\* timeout, failed or non-key input event or other key ends it.
C19_OnlyQuitOrDrawErrorEndsLoop ==
    /\ ( pc \notin Running => cause \in {"quit", "draw"} )
    /\ ( pc = "returnedOk" <=> cause = "quit" )
    /\ ( pc = "returnedErr" <=> cause = "draw" )

C19_Witness ==
    /\ pc = "returnedErr" /\ cause = "draw"
    /\ lastOp = "update" /\ fetched.tag = "Err"

\* C20: on every exit path of main after raw mode was entered, each restoration
\* step (leave raw mode, leave the alternate screen, show the cursor) has been
\* attempted before main returns.
C20_RestorationAttempted ==
    mainpc \in {"exitOk", "exitErr"} /\ entered => restored = Restoration

=============================================================================
